---------------------------- MODULE Spec2Model ----------------------------
(***************************************************************************)
(* Boolean search over an inverted index (src/3_indexation).               *)
(*                                                                         *)
(*   inverted_index.py  builds the index file from per-document lemma      *)
(*                      files (process_lemmas_directory).                  *)
(*   boolean_search.py  loads the index, the lemma groups and the html     *)
(*                      table (SearchEngine.__init__) and answers queries  *)
(*                      in a read-evaluate-print loop (main).              *)
(*                                                                         *)
(* Python values are modelled as follows.                                  *)
(*   str            a TLA+ string                                          *)
(*   set[int]/None  a record [none, ids]  (PySet(S) or PyNone)             *)
(*   dict           a function; a dict whose iteration order matters is a  *)
(*                  sequence of entries in insertion order                 *)
(*   list           a sequence                                             *)
(* A query line is modelled at the granularity of its lexemes: a sequence  *)
(* of the whitespace-separated pieces the tokenizer's regular expression   *)
(* scans.                                                                  *)
(***************************************************************************)
EXTENDS Integers, Sequences, FiniteSets, TLC

VARIABLES
    inverted_index,   \* SearchEngine.inverted_index : lemma -> set of ids
    lemmas,           \* SearchEngine.lemmas : entries <<lemma, tokens>> in dict order
    htmls,            \* SearchEngine.htmls : id -> path
    pc,               \* position of main(): "prompt", "exited", "crashed"
    query,            \* the last line read by input()
    outcome,          \* what process_query did with it
    printed,          \* the last list main() printed
    operands,         \* <<A, B>>: two query texts a caller composes queries from
    answers,          \* process_query's outcome on each composed query
    lemma_dir,        \* the builder's input directory, in os.listdir order
    files,            \* the files of the output side: path -> lines of the file
    dirs,             \* the directories that exist on the output side
    result,           \* the ProcessingResult of process_lemmas_directory
    clock,            \* time.time(), in ticks
    host_last_ts,     \* crawl's host_last_ts : host -> time of the last stamp
    pending,          \* the urls submitted to the pool and not yet taken
    worker,           \* each pool thread's position in fetch_throttled and its locals
    requests          \* the HTTP requests started so far, in order: [host, at]

engine == <<inverted_index, lemmas, htmls>>

session == <<pc, query, outcome, printed>>

caller == <<operands, answers>>

builder == <<lemma_dir, files, dirs, result>>

crawler == <<clock, host_last_ts, pending, worker, requests>>

vars == <<engine, session, caller, builder, crawler>>

---------------------------------------------------------------------------
(* Bounds *)

MaxDocId == 2

MaxQueryLen == 3

MaxLeftLen == 3

MaxRightLen == 1

MaxLongLen == 5

MaxFileNo == 2

MaxLemmaLines == 3

MaxOutputs == 4

MaxRebuildLines == 1

MaxUrls == 3

MaxWorkers == 2

MaxClock == 5

Delay == 2

DocIds == 1..MaxDocId

---------------------------------------------------------------------------
(* Python values *)

PySet(S) == [none |-> FALSE, ids |-> S]

PyNone == [none |-> TRUE, ids |-> {}]

Last(s) == s[Len(s)]

Front(s) == SubSeq(s, 1, Len(s) - 1)

Min(S) == CHOOSE x \in S : \A y \in S : x <= y

RECURSIVE Sorted(_)
Sorted(S) == IF S = {} THEN <<>> ELSE <<Min(S)>> \o Sorted(S \ {Min(S)})

Range(s) == {s[i] : i \in DOMAIN s}

\* no ProcessingResult yet
NoResult == [file_path |-> "None", error |-> "None"]

---------------------------------------------------------------------------
(* Loading: SearchEngine.__init__ *)

HtmlPath(n) == "htmls/" \o ToString(n) \o ".html"

\* _load_htmls: one entry per file named <number>.html of the directory
LoadHtmls(dir) == [n \in dir |-> HtmlPath(n)]

\* _load_inverted_index: the dict of an index file whose lines are
\* "<lemma> <id> <id> ..." for some of the lemmas of Keys
LoadedIndexes(Keys) ==
    UNION {[K -> (SUBSET DocIds) \ {{}}] : K \in SUBSET Keys}

\* the lemma groups _load_lemmas collects, in the dict's insertion order
LoadedLemmas ==
    { << <<"cat", {"cats"}>> >>,
      << <<"dog", {"dogs", "cats"}>>, <<"cat", {"cats"}>> >> }

---------------------------------------------------------------------------
(* _tokenize_query *)

Separators == {","}

Upper(w) ==
    CASE w \in {"and", "AND"} -> "AND"
      [] w \in {"or", "OR"}   -> "OR"
      [] w \in {"not", "NOT"} -> "NOT"
      [] w \in {"cat", "Cat"} -> "CAT"
      [] w \in {"cats", "Cats"} -> "CATS"
      [] w = "dog"            -> "DOG"
      [] OTHER                -> w

Lower(w) ==
    CASE w \in {"and", "AND"} -> "and"
      [] w \in {"or", "OR"}   -> "or"
      [] w \in {"not", "NOT"} -> "not"
      [] w \in {"cat", "Cat"} -> "cat"
      [] w \in {"cats", "Cats"} -> "cats"
      [] OTHER                -> w

Keywords == {"AND", "OR", "NOT", "(", ")"}

Normalize(w) == IF Upper(w) \in Keywords THEN Upper(w) ELSE Lower(w)

RECURSIVE TokenizeQuery(_)
TokenizeQuery(q) ==
    IF q = <<>> THEN <<>>
    ELSE IF Head(q) \in Separators THEN TokenizeQuery(Tail(q))
    ELSE <<Normalize(Head(q))>> \o TokenizeQuery(Tail(q))

---------------------------------------------------------------------------
(* _to_postfix: shunting yard *)

Operators == {"AND", "OR", "NOT"}

precedence(t) == CASE t = "NOT" -> 3 [] t = "AND" -> 2 [] t = "OR" -> 1 [] OTHER -> 0

\* while operator_stack and operator_stack[-1] != '(' : pop to the output
RECURSIVE PopToParen(_)
PopToParen(s) ==
    IF s.st # <<>> /\ Last(s.st) # "("
    THEN PopToParen([out |-> Append(s.out, Last(s.st)), st |-> Front(s.st)])
    ELSE s

\* if operator_stack and operator_stack[-1] == '(' : pop it
DropParen(s) ==
    IF s.st # <<>> /\ Last(s.st) = "(" THEN [s EXCEPT !.st = Front(s.st)] ELSE s

\* while the top is an operator of precedence >= that of token : pop to the output
RECURSIVE PopHigher(_, _)
PopHigher(s, token) ==
    IF s.st # <<>> /\ Last(s.st) # "(" /\ precedence(Last(s.st)) >= precedence(token)
    THEN PopHigher([out |-> Append(s.out, Last(s.st)), st |-> Front(s.st)], token)
    ELSE s

PostfixStep(s, token) ==
    IF token \notin Operators /\ token \notin {"(", ")"}
    THEN [s EXCEPT !.out = Append(s.out, token)]
    ELSE IF token = "(" THEN [s EXCEPT !.st = Append(s.st, token)]
    ELSE IF token = ")" THEN DropParen(PopToParen(s))
    ELSE LET p == PopHigher(s, token) IN [p EXCEPT !.st = Append(p.st, token)]

RECURSIVE PostfixLoop(_, _)
PostfixLoop(s, tokens) ==
    IF tokens = <<>> THEN s
    ELSE PostfixLoop(PostfixStep(s, Head(tokens)), Tail(tokens))

\* while operator_stack: output_queue.append(operator_stack.pop())
RECURSIVE Flush(_)
Flush(s) ==
    IF s.st = <<>> THEN s.out
    ELSE Flush([out |-> Append(s.out, Last(s.st)), st |-> Front(s.st)])

ToPostfix(tokens) == Flush(PostfixLoop([out |-> <<>>, st |-> <<>>], tokens))

---------------------------------------------------------------------------
(* _get_indexes_by_token *)

\* self.inverted_index.get(key)
IndexGet(index, key) ==
    IF key \in DOMAIN index THEN PySet(index[key]) ELSE PyNone

\* for lemma, tokens in self.lemmas.items(): if token in tokens: return ...
RECURSIVE ScanLemmas(_, _, _, _)
ScanLemmas(index, groups, token, default_value) ==
    IF groups = <<>> THEN default_value
    ELSE IF token \in Head(groups)[2] THEN IndexGet(index, Head(groups)[1])
    ELSE ScanLemmas(index, Tail(groups), token, default_value)

GetIndexesByToken(index, groups, token, default_value) ==
    IF token \in DOMAIN index THEN IndexGet(index, token)
    ELSE ScanLemmas(index, groups, token, default_value)

---------------------------------------------------------------------------
(* process_query *)

\* all_docs = set(self.htmls.keys())
AllDocs(table) == DOMAIN table

\* a slip in the OR branch: res = left | left
ApplyBinaryOrKeepsLeft(token, left, right) ==
    IF token = "AND" THEN left \cap right ELSE left

\* if token == 'AND': res = left & right / elif token == 'OR': res = left | right
ApplyBinary(token, left, right) ==
    IF token = "AND" THEN left \cap right ELSE left \cup right

\* one instruction of the postfix program; r = [err, stack]
EvalStep(index, groups, table, r, token) ==
    IF token = "NOT" THEN
        IF r.stack = <<>> THEN [r EXCEPT !.err = "ValueError"]
        ELSE LET operand == Last(r.stack) IN
             IF operand.none THEN [r EXCEPT !.err = "TypeError"]
             ELSE [r EXCEPT !.stack =
                      Append(Front(r.stack), PySet(AllDocs(table) \ operand.ids))]
    ELSE IF token \in {"AND", "OR"} THEN
        IF Len(r.stack) < 2 THEN [r EXCEPT !.err = "ValueError"]
        ELSE LET right == Last(r.stack)
                 left  == Last(Front(r.stack))
                 rest  == Front(Front(r.stack))
             IN  IF left.none \/ right.none THEN [r EXCEPT !.err = "TypeError"]
                 ELSE [r EXCEPT !.stack =
                          Append(rest, PySet(ApplyBinary(token, left.ids, right.ids)))]
    ELSE [r EXCEPT !.stack =
             Append(r.stack, GetIndexesByToken(index, groups, token, PySet({})))]

RECURSIVE EvalLoop(_, _, _, _, _)
EvalLoop(index, groups, table, r, postfix) ==
    IF postfix = <<>> \/ r.err # "" THEN r
    ELSE EvalLoop(index, groups, table,
                  EvalStep(index, groups, table, r, Head(postfix)), Tail(postfix))

\* self.htmls.get(idx)
HtmlGet(table, idx) == IF idx \in DOMAIN table THEN table[idx] ELSE "None"

\* [self.htmls.get(idx) for idx in sorted(list(stack[0]))]
ResultList(table, S) == [i \in 1..Cardinality(S) |-> HtmlGet(table, Sorted(S)[i])]

Raised(kind) == [kind |-> kind, ids |-> {}, list |-> <<>>]

ProcessQueryOn(index, groups, table, q) ==
    LET postfix_tokens == ToPostfix(TokenizeQuery(q))
        r == EvalLoop(index, groups, table, [err |-> "", stack |-> <<>>], postfix_tokens)
    IN  IF r.err # "" THEN Raised(r.err)
        ELSE IF Len(r.stack) # 1 THEN Raised("ValueError")
        ELSE IF r.stack[1].none THEN Raised("TypeError")
        ELSE [kind |-> "ok", ids |-> r.stack[1].ids,
              list |-> ResultList(table, r.stack[1].ids)]

process_query(q) == ProcessQueryOn(inverted_index, lemmas, htmls, q)

---------------------------------------------------------------------------
(* main: the query loop *)

RawWords == {"Cat", "cats", "and", "OR", "NOT", "(", ")"}

RECURSIVE SeqsUpTo(_, _)
SeqsUpTo(S, n) ==
    IF n = 0 THEN {<<>>}
    ELSE LET shorter == SeqsUpTo(S, n - 1)
         IN  shorter \cup {Append(s, x) : s \in shorter, x \in S}

QueryLines == SeqsUpTo(RawWords, MaxQueryLen)

NoOutcome == [kind |-> "none", ids |-> {}, list |-> <<>>]

Init ==
    /\ inverted_index \in LoadedIndexes({"cat"})
    /\ lemmas \in LoadedLemmas
    /\ htmls \in {LoadHtmls(dir) : dir \in SUBSET DocIds}
    /\ pc = "prompt"
    /\ query = <<>>
    /\ outcome = NoOutcome
    /\ printed = <<>>
    /\ operands = <<>>
    /\ answers = <<>>
    /\ lemma_dir = <<>>
    /\ files = <<>>
    /\ dirs = {}
    /\ result = NoResult
    /\ clock = 0
    /\ host_last_ts = <<>>
    /\ pending = <<>>
    /\ worker = <<>>
    /\ requests = <<>>

\* query = input(...); results = process_query(query); print("\n".join(results))
\* An exception of process_query or of join leaves main(): nothing catches it.
ReadQuery ==
    /\ pc = "prompt"
    /\ \E q \in QueryLines \ {<<>>} :
         LET res == process_query(q) IN
         /\ query' = q
         /\ IF res.kind # "ok"
            THEN /\ outcome' = res
                 /\ pc' = "crashed"
                 /\ printed' = printed
            ELSE IF "None" \in Range(res.list)
            THEN /\ outcome' = res
                 /\ pc' = "crashed"
                 /\ printed' = printed
            ELSE /\ outcome' = res
                 /\ pc' = "prompt"
                 /\ printed' = res.list
    /\ UNCHANGED <<engine, caller, builder, crawler>>

\* if query == "": break
ReadEmptyLine ==
    /\ pc = "prompt"
    /\ query' = <<>>
    /\ pc' = "exited"
    /\ UNCHANGED <<engine, outcome, printed, caller, builder, crawler>>

Next == ReadQuery \/ ReadEmptyLine

Spec == Init /\ [][Next]_vars

---------------------------------------------------------------------------
(* process_query as a function: composed queries over two operands *)

Atoms == {"cat", "dog"}

\* the well-formed infix expressions of at most n tokens, by grammar level:
\*   or-expr  ::= and-expr  | or-expr OR and-expr
\*   and-expr ::= unary     | and-expr AND unary
\*   unary    ::= primary   | NOT unary
\*   primary  ::= atom      | ( or-expr )
RECURSIVE OrExprs(_), AndExprs(_), Unaries(_), Primaries(_)
Primaries(n) ==
    IF n < 1 THEN {}
    ELSE {<<a>> : a \in Atoms}
         \cup {<<"(">> \o e \o <<")">> : e \in OrExprs(n - 2)}

Unaries(n) ==
    IF n < 1 THEN {}
    ELSE Primaries(n) \cup {<<"NOT">> \o u : u \in Unaries(n - 1)}

AndExprs(n) ==
    IF n < 1 THEN {}
    ELSE Unaries(n)
         \cup {p[1] \o <<"AND">> \o p[2] :
                   p \in {x \in AndExprs(n - 2) \X Unaries(n - 2) :
                             Len(x[1]) + Len(x[2]) + 1 <= n}}

OrExprs(n) ==
    IF n < 1 THEN {}
    ELSE AndExprs(n)
         \cup {p[1] \o <<"OR">> \o p[2] :
                   p \in {x \in OrExprs(n - 2) \X AndExprs(n - 2) :
                             Len(x[1]) + Len(x[2]) + 1 <= n}}

LeftOperands == OrExprs(MaxLeftLen)

RightOperands == OrExprs(MaxRightLen)

Paren(q) == <<"(">> \o q \o <<")">>

\* the queries a caller composes from the operands A and B
Composed(A, B) ==
    [a      |-> A,
     b      |-> B,
     notnot |-> <<"NOT", "(", "NOT">> \o A \o <<")">>,
     and_ab |-> A \o <<"AND">> \o B,
     and_ba |-> B \o <<"AND">> \o A,
     or_ab  |-> A \o <<"OR">> \o B,
     or_ba  |-> B \o <<"OR">> \o A,
     pand_ab |-> Paren(A) \o <<"AND">> \o Paren(B),
     pand_ba |-> Paren(B) \o <<"AND">> \o Paren(A),
     por_ab  |-> Paren(A) \o <<"OR">> \o Paren(B),
     por_ba  |-> Paren(B) \o <<"OR">> \o Paren(A)]

\* the html directories the crawler leaves: pages numbered 1..k without gaps
CrawledDirs == {1..k : k \in 0..MaxDocId}

InitQueries ==
    /\ inverted_index \in LoadedIndexes({"cat", "dog"})
    /\ lemmas \in {<< <<"cat", {"cats"}>> >>}
    /\ htmls \in {LoadHtmls(dir) : dir \in CrawledDirs}
    /\ pc = "prompt"
    /\ query = <<>>
    /\ outcome = NoOutcome
    /\ printed = <<>>
    /\ operands \in LeftOperands \X RightOperands
    /\ answers = <<>>
    /\ lemma_dir = <<>>
    /\ files = <<>>
    /\ dirs = {}
    /\ result = NoResult
    /\ clock = 0
    /\ host_last_ts = <<>>
    /\ pending = <<>>
    /\ worker = <<>>
    /\ requests = <<>>

\* the caller runs process_query on every composed query
AskComposed ==
    /\ answers = <<>>
    /\ LET queries == Composed(operands[1], operands[2])
       IN  answers' = [k \in DOMAIN queries |-> process_query(queries[k])]
    /\ UNCHANGED <<engine, session, operands, builder, crawler>>

NextQueries == AskComposed

SpecQueries == InitQueries /\ [][NextQueries]_vars

\* the same caller with a one-term A and a longer B
LongOperands == OrExprs(MaxLongLen)

InitLong ==
    /\ inverted_index \in LoadedIndexes({"cat", "dog"})
    /\ lemmas \in {<< <<"cat", {"cats"}>> >>}
    /\ htmls \in {LoadHtmls(dir) : dir \in CrawledDirs}
    /\ pc = "prompt"
    /\ query = <<>>
    /\ outcome = NoOutcome
    /\ printed = <<>>
    /\ operands \in OrExprs(1) \X LongOperands
    /\ answers = <<>>
    /\ lemma_dir = <<>>
    /\ files = <<>>
    /\ dirs = {}
    /\ result = NoResult
    /\ clock = 0
    /\ host_last_ts = <<>>
    /\ pending = <<>>
    /\ worker = <<>>
    /\ requests = <<>>

SpecLong == InitLong /\ [][NextQueries]_vars

---------------------------------------------------------------------------
(* inverted_index.py: the index builder *)

\* a file of the input directory: its name and its lines, each line the
\* sequence of its whitespace-separated columns (<<>> is a blank line)
LemmaFile(n, lines) == [name |-> "lemmas", number |-> n, lines |-> lines]

OtherFile == [name |-> "notes", number |-> 0, lines |-> << <<"cat">> >>]

LineChoices == { <<"cat", "cats">>, <<"dog">>, <<>> }

\* the listings of lemma files numbered in ids, in any order, with at most
\* budget lines in all
RECURSIVE LemmaListings(_, _)
LemmaListings(ids, budget) ==
    {<<>>}
    \cup UNION {
           UNION {
             {<<LemmaFile(i, c)>> \o rest :
                  rest \in LemmaListings(ids \ {i}, budget - Len(c))} :
             c \in SeqsUpTo(LineChoices, budget)}
           : i \in ids}

\* the directory may also hold a file of another name
Listings(ids, budget) ==
    LemmaListings(ids, budget)
    \cup {<<OtherFile>> \o l : l \in LemmaListings(ids, budget)}

\* pattern.match(filename) for r'lemmas_(\d+)\.txt$'
MatchesPattern(file) == file.name = "lemmas"

\* d[key] = value on a dict kept as its entries in insertion order
DictSet(d, key, value) ==
    IF \E i \in DOMAIN d : d[i][1] = key
    THEN [i \in DOMAIN d |-> IF d[i][1] = key THEN <<key, value>> ELSE d[i]]
    ELSE Append(d, <<key, value>>)

DictHas(d, key) == \E i \in DOMAIN d : d[i][1] = key

DictGet(d, key) == d[CHOOSE i \in DOMAIN d : d[i][1] = key][2]

\* get_lemmas_file_paths: number -> file, in the order of the listing
RECURSIVE GetLemmasFilePaths(_)
GetLemmasFilePaths(listing) ==
    IF listing = <<>> THEN <<>>
    ELSE LET before == GetLemmasFilePaths(Front(listing))
             file   == Last(listing)
         IN  IF MatchesPattern(file)
             THEN DictSet(before, file.number, file)
             ELSE before

\* a slip in the column taken: line.split()[-1]
GetLemmasFromLastColumn(file) ==
    IF \E i \in DOMAIN file.lines : file.lines[i] = <<>>
    THEN [err |-> "list index out of range", lemmas |-> <<>>]
    ELSE [err |-> "", lemmas |-> [i \in DOMAIN file.lines |-> Last(file.lines[i])]]

\* get_lemmas_from_lemma_file: the first column of every line; a blank line
\* has no first column (IndexError)
GetLemmasFromLemmaFile(file) ==
    IF \E i \in DOMAIN file.lines : file.lines[i] = <<>>
    THEN [err |-> "list index out of range", lemmas |-> <<>>]
    ELSE [err |-> "", lemmas |-> [i \in DOMAIN file.lines |-> file.lines[i][1]]]

\* resolve_output: the requested path when free, else the first free
\* <stem>_<counter><suffix>
OutputParent == "out"

OutputPath(counter) ==
    IF counter = 0 THEN OutputParent \o "/index.txt"
    ELSE OutputParent \o "/index_" \o ToString(counter) \o ".txt"

RECURSIVE FirstFree(_, _)
FirstFree(existing, counter) ==
    IF OutputPath(counter) \notin existing THEN OutputPath(counter)
    ELSE FirstFree(existing, counter + 1)

\* a slip in the loop: the counter is never incremented past 1
ResolveOutputSuffixOne(existing) ==
    IF OutputPath(0) \notin existing THEN OutputPath(0) ELSE OutputPath(1)

ResolveOutput(existing) == FirstFree(existing, 0)

\* for lemma in lemmas: lemma_to_file_indexes[lemma].append(file_index)
RECURSIVE AppendIndexes(_, _, _)
AppendIndexes(d, lemma_list, file_index) ==
    IF lemma_list = <<>> THEN d
    ELSE LET lemma == Head(lemma_list)
             d1 == IF DictHas(d, lemma) THEN d ELSE DictSet(d, lemma, <<>>)
         IN  AppendIndexes(DictSet(d1, lemma, Append(DictGet(d1, lemma), file_index)),
                           Tail(lemma_list), file_index)

\* for file_index, lemma_file_path in lemmas_file_paths.items(): ...
\* acc = [err, d]; the first unreadable file ends the loop
RECURSIVE CollectIndexes(_, _)
CollectIndexes(acc, paths) ==
    IF paths = <<>> \/ acc.err # "" THEN acc
    ELSE LET got == GetLemmasFromLemmaFile(Head(paths)[2])
         IN  IF got.err # "" THEN [acc EXCEPT !.err = got.err]
             ELSE CollectIndexes(
                    [acc EXCEPT !.d = AppendIndexes(acc.d, got.lemmas, Head(paths)[1])],
                    Tail(paths))

\* lemma + " " + " ".join(map(str, file_indexes)) + "\n", as its columns
IndexLine(entry) ==
    <<entry[1]>> \o [i \in DOMAIN entry[2] |-> ToString(entry[2][i])]

WriteFile(fs, path, lines) ==
    [p \in DOMAIN fs \cup {path} |-> IF p = path THEN lines ELSE fs[p]]

InitBuild ==
    /\ inverted_index = <<>>
    /\ lemmas = <<>>
    /\ htmls = <<>>
    /\ pc = "prompt"
    /\ query = <<>>
    /\ outcome = NoOutcome
    /\ printed = <<>>
    /\ operands = <<>>
    /\ answers = <<>>
    /\ lemma_dir \in Listings(1..MaxFileNo, MaxLemmaLines)
    /\ files \in { <<>>, [p \in {OutputPath(0)} |-> << <<"old">> >>] }
    /\ dirs \in {ds \in SUBSET {OutputParent} : files # <<>> => OutputParent \in ds}
    /\ result = NoResult
    /\ clock = 0
    /\ host_last_ts = <<>>
    /\ pending = <<>>
    /\ worker = <<>>
    /\ requests = <<>>

\* a slip in the order: the output file is created as soon as its path is
\* resolved, before the lemma files are read
ProcessLemmasDirectoryTouchFirst(listing, fs, ds) ==
    LET lemmas_file_paths == GetLemmasFilePaths(listing) IN
    IF lemmas_file_paths = <<>>
    THEN [files |-> fs, dirs |-> ds,
          result |-> [file_path |-> "None",
                      error |-> "Input directory is empty or has files with invalid format"]]
    ELSE LET resolved_output == ResolveOutput(DOMAIN fs)
             collected == CollectIndexes([err |-> "", d |-> <<>>], lemmas_file_paths)
         IN  IF collected.err # ""
             THEN [files |-> WriteFile(fs, resolved_output, <<>>),
                   dirs |-> ds \cup {OutputParent},
                   result |-> [file_path |-> "None", error |-> collected.err]]
             ELSE [files |-> WriteFile(fs, resolved_output,
                                [i \in DOMAIN collected.d |-> IndexLine(collected.d[i])]),
                   dirs |-> ds \cup {OutputParent},
                   result |-> [file_path |-> resolved_output, error |-> "None"]]

\* process_lemmas_directory(lemmas_path, output) on the listing of
\* lemmas_path, with the files fs and the directories ds on the output side:
\* what it leaves there and the ProcessingResult it returns
ProcessLemmasDirectory(listing, fs, ds) ==
    LET lemmas_file_paths == GetLemmasFilePaths(listing) IN
    IF lemmas_file_paths = <<>>
    THEN [files |-> fs, dirs |-> ds,
          result |-> [file_path |-> "None",
                      error |-> "Input directory is empty or has files with invalid format"]]
    ELSE LET resolved_output == ResolveOutput(DOMAIN fs)
             collected == CollectIndexes([err |-> "", d |-> <<>>], lemmas_file_paths)
         IN  IF collected.err # ""
             THEN [files |-> fs, dirs |-> ds,
                   result |-> [file_path |-> "None", error |-> collected.err]]
             \* parent.mkdir(parents=True, exist_ok=True); touch(); open('w')
             ELSE [files |-> WriteFile(fs, resolved_output,
                                [i \in DOMAIN collected.d |-> IndexLine(collected.d[i])]),
                   dirs |-> ds \cup {OutputParent},
                   result |-> [file_path |-> resolved_output, error |-> "None"]]

\* one run of the builder
Build ==
    /\ result = NoResult
    /\ LET done == ProcessLemmasDirectory(lemma_dir, files, dirs) IN
       /\ files' = done.files
       /\ dirs' = done.dirs
       /\ result' = done.result
    /\ UNCHANGED <<engine, session, caller, lemma_dir, crawler>>

NextBuild == Build

SpecBuild == InitBuild /\ [][NextBuild]_vars

---------------------------------------------------------------------------
(* the builder run again and again with the same requested output path *)

\* the input directories of a rebuild: the lemma file of one document, or
\* no lemma file at all
RebuildListings == LemmaListings({1}, MaxRebuildLines) \cup {<<OtherFile>>}

\* the files that lie at the requested path or at its suffixed variants
\* before the first build
PreExisting ==
    {[p \in P |-> << <<"old">> >>] :
        P \in SUBSET {OutputPath(k) : k \in 0..(MaxOutputs - 2)}}

InitRebuild ==
    /\ inverted_index = <<>>
    /\ lemmas = <<>>
    /\ htmls = <<>>
    /\ pc = "prompt"
    /\ query = <<>>
    /\ outcome = NoOutcome
    /\ printed = <<>>
    /\ operands = <<>>
    /\ answers = <<>>
    /\ lemma_dir = <<>>
    /\ files \in PreExisting
    /\ dirs \in {ds \in SUBSET {OutputParent} : files # <<>> => OutputParent \in ds}
    /\ result = NoResult
    /\ clock = 0
    /\ host_last_ts = <<>>
    /\ pending = <<>>
    /\ worker = <<>>
    /\ requests = <<>>

\* process_lemmas_directory(lemmas_path, output) on what lemmas_path holds now
Rebuild ==
    /\ Cardinality(DOMAIN files) < MaxOutputs
    /\ \E listing \in RebuildListings :
         LET done == ProcessLemmasDirectory(listing, files, dirs) IN
         /\ lemma_dir' = listing
         /\ files' = done.files
         /\ dirs' = done.dirs
         /\ result' = done.result
    /\ UNCHANGED <<engine, session, caller, crawler>>

NextRebuild == Rebuild

SpecRebuild == InitRebuild /\ [][NextRebuild]_vars

---------------------------------------------------------------------------
(* crawler.py: the thread pool of crawl running fetch_throttled *)

Hosts == {"a.example", "b.example"}

\* a url is <<host, page>>; urlparse(u).netloc
Netloc(u) == u[1]

\* the url lists read_urls returns: one to MaxUrls urls, page i on line i
UrlLists ==
    UNION {{[i \in 1..n |-> <<h[i], i>>] : h \in [1..n -> Hosts]} : n \in 1..MaxUrls}

Workers == 1..MaxWorkers

Idle == [pc |-> "idle", u |-> <<>>, now |-> 0, wake |-> 0]

\* host_last_ts.get(host, 0.0)
HostLast(host) == IF host \in DOMAIN host_last_ts THEN host_last_ts[host] ELSE 0

\* the clock starts late enough for the default 0.0 to ask for no wait
InitCrawl ==
    /\ inverted_index = <<>>
    /\ lemmas = <<>>
    /\ htmls = <<>>
    /\ pc = "prompt"
    /\ query = <<>>
    /\ outcome = NoOutcome
    /\ printed = <<>>
    /\ operands = <<>>
    /\ answers = <<>>
    /\ lemma_dir = <<>>
    /\ files = <<>>
    /\ dirs = {}
    /\ result = NoResult
    /\ clock = Delay
    /\ host_last_ts = <<>>
    /\ pending \in UrlLists
    /\ worker = [w \in Workers |-> Idle]
    /\ requests = <<>>

\* a pool thread takes the next submitted call fetch_throttled(u)
Take(w) ==
    /\ worker[w].pc = "idle"
    /\ pending # <<>>
    /\ worker' = [worker EXCEPT ![w] = [Idle EXCEPT !.pc = "now", !.u = Head(pending)]]
    /\ pending' = Tail(pending)
    /\ UNCHANGED <<clock, host_last_ts, requests, engine, session, caller, builder>>

\* host = urlparse(u).netloc; now = time.time()
ReadNow(w) ==
    /\ worker[w].pc = "now"
    /\ worker' = [worker EXCEPT ![w].now = clock, ![w].pc = "last"]
    /\ UNCHANGED <<clock, host_last_ts, pending, requests, engine, session, caller, builder>>

\* last = host_last_ts.get(host, 0.0); wait = (last + delay) - now;
\* if wait > 0: time.sleep(wait)
ReadLast(w) ==
    /\ worker[w].pc = "last"
    /\ LET last == HostLast(Netloc(worker[w].u))
           wait == (last + Delay) - worker[w].now
       IN  worker' = [worker EXCEPT
                        ![w].wake = IF wait > 0 THEN clock + wait ELSE 0,
                        ![w].pc = IF wait > 0 THEN "sleeping" ELSE "stamp"]
    /\ UNCHANGED <<clock, host_last_ts, pending, requests, engine, session, caller, builder>>

\* time.sleep(wait) returns
Wake(w) ==
    /\ worker[w].pc = "sleeping"
    /\ clock >= worker[w].wake
    /\ worker' = [worker EXCEPT ![w].pc = "stamp"]
    /\ UNCHANGED <<clock, host_last_ts, pending, requests, engine, session, caller, builder>>

\* host_last_ts[host] = time.time()
Stamp(w) ==
    /\ worker[w].pc = "stamp"
    /\ LET host == Netloc(worker[w].u)
       IN  host_last_ts' = [h \in DOMAIN host_last_ts \cup {host} |->
                               IF h = host THEN clock ELSE host_last_ts[h]]
    /\ worker' = [worker EXCEPT ![w].pc = "get"]
    /\ UNCHANGED <<clock, pending, requests, engine, session, caller, builder>>

\* return http_get(u, ...): the request is started
StartRequest(w) ==
    /\ worker[w].pc = "get"
    /\ requests' = Append(requests, [host |-> Netloc(worker[w].u), at |-> clock])
    /\ worker' = [worker EXCEPT ![w].pc = "fetching"]
    /\ UNCHANGED <<clock, host_last_ts, pending, engine, session, caller, builder>>

\* http_get returns its FetchResult and the thread is free again
Respond(w) ==
    /\ worker[w].pc = "fetching"
    /\ worker' = [worker EXCEPT ![w] = Idle]
    /\ UNCHANGED <<clock, host_last_ts, pending, requests, engine, session, caller, builder>>

\* time passes
Tick ==
    /\ clock < MaxClock
    /\ clock' = clock + 1
    /\ UNCHANGED <<host_last_ts, pending, worker, requests, engine, session, caller, builder>>

NextCrawl ==
    \/ \E w \in Workers : Take(w)
    \/ \E w \in Workers : ReadNow(w)
    \/ \E w \in Workers : ReadLast(w)
    \/ \E w \in Workers : Wake(w)
    \/ \E w \in Workers : Stamp(w)
    \/ \E w \in Workers : StartRequest(w)
    \/ \E w \in Workers : Respond(w)
    \/ Tick

SpecCrawl == InitCrawl /\ [][NextCrawl]_vars

---------------------------------------------------------------------------
(* Claims about the query loop and process_query *)

IsLiteral(t) == t \notin Keywords

Evaluated == query # <<>> /\ outcome.kind # "none"

\* C1: a malformed query is reported and does not end the session: after a
\* query that process_query rejects as malformed, main() is back at its
\* prompt and goes on reading queries.
C1_MalformedQueryKeepsSession ==
    (Evaluated /\ outcome.kind = "ValueError") => pc = "prompt"

\* the set the specification's resolution rule allows for a literal term
ClaimedResolutions(t) ==
    IF t \in DOMAIN inverted_index THEN {inverted_index[t]}
    ELSE IF \E i \in DOMAIN lemmas : t \in lemmas[i][2]
    THEN {IF lemmas[i][1] \in DOMAIN inverted_index
          THEN inverted_index[lemmas[i][1]] ELSE {} :
            i \in {j \in DOMAIN lemmas : t \in lemmas[j][2]}}
    ELSE {{}}

\* C2: resolving a literal term never fails: a query that is one literal term
\* always returns a result, whose set is the term's posting set, or that of a
\* lemma whose token group holds the term, or empty; never an error.
C2_SingleTermNeverFails ==
    LET tokens == TokenizeQuery(query) IN
    (Evaluated /\ Len(tokens) = 1 /\ IsLiteral(tokens[1]))
        => (outcome.kind = "ok" /\ outcome.ids \in ClaimedResolutions(tokens[1]))

\* the stack depth after running a postfix program from depth d, or -1 when
\* an operator finds too few operands
RECURSIVE DepthAfter(_, _)
DepthAfter(postfix, d) ==
    IF postfix = <<>> THEN d
    ELSE IF Head(postfix) = "NOT"
         THEN IF d < 1 THEN -1 ELSE DepthAfter(Tail(postfix), d)
    ELSE IF Head(postfix) \in {"AND", "OR"}
         THEN IF d < 2 THEN -1 ELSE DepthAfter(Tail(postfix), d - 1)
    ELSE DepthAfter(Tail(postfix), d + 1)

Malformed(q) == DepthAfter(ToPostfix(TokenizeQuery(q)), 0) # 1

\* C3: process_query fails with the malformed-query error exactly when an
\* operator of the postfix program finds too few sets on the stack or the
\* program does not leave exactly one set; otherwise it returns a result and
\* raises no other error.
C3_ErrorExactlyWhenMalformed ==
    Evaluated =>
        /\ (outcome.kind = "ValueError") <=> Malformed(query)
        /\ (~Malformed(query)) => outcome.kind = "ok"

\* the DocumentUniverse of the data model: every id with a posting or a
\* table entry
DocumentUniverse ==
    UNION {inverted_index[k] : k \in DOMAIN inverted_index} \cup DOMAIN htmls

\* C8: the set a NOT complements against is the DocumentUniverse, so it holds
\* every id of every posting set.
C8_NotComplementsUniverse ==
    (Evaluated /\ outcome.kind = "ok" /\ "NOT" \in Range(TokenizeQuery(query)))
        => AllDocs(htmls) = DocumentUniverse

\* C9: the list returned for a result set S is the paths of the ids of S that
\* have a table entry, in ascending id order; ids without an entry are
\* dropped, and printing the list does not fail.
C9_ResultListDropsUnknownIds ==
    (Evaluated /\ outcome.kind = "ok") =>
        LET known == Sorted(outcome.ids \cap DOMAIN htmls) IN
        /\ outcome.list = [i \in 1..Len(known) |-> htmls[known[i]]]
        /\ pc = "prompt"

\* two literal terms stand next to each other in the token sequence
AdjacentLiterals(tokens) ==
    \E i \in 1..(Len(tokens) - 1) : IsLiteral(tokens[i]) /\ IsLiteral(tokens[i + 1])

\* C14: adjacent literals are rejected: every query whose token sequence
\* holds two literal terms next to each other with no operator between them
\* is rejected by process_query; none is given a result.
C14_AdjacentLiteralsRejected ==
    (Evaluated /\ AdjacentLiterals(TokenizeQuery(query))) => outcome.kind # "ok"

\* the number of open parentheses after the tokens, from depth open, or -1
\* when a ')' has no '(' before it
RECURSIVE OpenAfter(_, _)
OpenAfter(tokens, open) ==
    IF tokens = <<>> THEN open
    ELSE IF Head(tokens) = "(" THEN OpenAfter(Tail(tokens), open + 1)
    ELSE IF Head(tokens) = ")"
         THEN IF open = 0 THEN -1 ELSE OpenAfter(Tail(tokens), open - 1)
    ELSE OpenAfter(Tail(tokens), open)

Unbalanced(tokens) == OpenAfter(tokens, 0) # 0

\* C15: a query with an unmatched '(' or an unmatched ')' never yields a
\* result, and no parenthesis reaches the evaluator in the postfix sequence
\* as if it were a literal term.
C15_UnbalancedParenthesesRejected ==
    (Evaluated /\ Unbalanced(TokenizeQuery(query))) =>
        /\ outcome.kind # "ok"
        /\ Range(ToPostfix(TokenizeQuery(query))) \cap {"(", ")"} = {}

---------------------------------------------------------------------------
(* Claims about composed queries *)

Asked == answers # <<>>

\* C4: double negation: when q evaluates to a set, NOT (NOT q) evaluates to
\* exactly the same set.
C4_DoubleNegation ==
    (Asked /\ answers.a.kind = "ok")
        => (answers.notnot.kind = "ok" /\ answers.notnot.ids = answers.a.ids)

\* the value of a well-formed infix expression read directly: NOT binds the
\* next operand only (right-associative), then AND, then OR (both
\* left-associative); r = [val, pos] is a value and the position after it
Complement(v) == IF v.none THEN PyNone ELSE PySet(AllDocs(htmls) \ v.ids)

Meet(l, r) == IF l.none \/ r.none THEN PyNone ELSE PySet(l.ids \cap r.ids)

Join(l, r) == IF l.none \/ r.none THEN PyNone ELSE PySet(l.ids \cup r.ids)

RECURSIVE DirectOr(_, _), DirectOrRest(_, _), DirectAnd(_, _),
          DirectAndRest(_, _), DirectUnary(_, _), DirectPrimary(_, _)
DirectPrimary(t, i) ==
    IF t[i] = "("
    THEN LET r == DirectOr(t, i + 1) IN [val |-> r.val, pos |-> r.pos + 1]
    ELSE [val |-> GetIndexesByToken(inverted_index, lemmas, t[i], PySet({})),
          pos |-> i + 1]

DirectUnary(t, i) ==
    IF t[i] = "NOT"
    THEN LET r == DirectUnary(t, i + 1) IN [val |-> Complement(r.val), pos |-> r.pos]
    ELSE DirectPrimary(t, i)

DirectAndRest(t, acc) ==
    IF acc.pos <= Len(t) /\ t[acc.pos] = "AND"
    THEN LET r == DirectUnary(t, acc.pos + 1)
         IN  DirectAndRest(t, [val |-> Meet(acc.val, r.val), pos |-> r.pos])
    ELSE acc

DirectAnd(t, i) == DirectAndRest(t, DirectUnary(t, i))

DirectOrRest(t, acc) ==
    IF acc.pos <= Len(t) /\ t[acc.pos] = "OR"
    THEN LET r == DirectAnd(t, acc.pos + 1)
         IN  DirectOrRest(t, [val |-> Join(acc.val, r.val), pos |-> r.pos])
    ELSE acc

DirectOr(t, i) == DirectOrRest(t, DirectAnd(t, i))

Direct(t) == DirectOr(t, 1).val

\* C5: for every well-formed infix expression, several NOTs in a row
\* included, evaluating the postfix sequence of _to_postfix gives the set the
\* expression has when read directly with NOT > AND > OR.
C5_PostfixAgreesWithDirect ==
    Asked => LET d == Direct(operands[1]) IN
             IF d.none THEN answers.a.kind = "TypeError"
             ELSE answers.a.kind = "ok" /\ answers.a.ids = d.ids

BothEvaluate == Asked /\ answers.a.kind = "ok" /\ answers.b.kind = "ok"

\* C10 as stated: for A and B that each evaluate to a set, unparenthesised
\* AND/OR inside them included, A AND B and B AND A give identical results,
\* and so do A OR B and B OR A.
C10_CommutativeAsFramed ==
    BothEvaluate => /\ answers.and_ab = answers.and_ba
                    /\ answers.or_ab = answers.or_ba

\* C10 amended: for well-formed A and B that each evaluate to a set, the
\* queries (A) AND (B) and (B) AND (A) give identical result sets, and so do
\* (A) OR (B) and (B) OR (A).
C10_CommutativeParenthesised ==
    BothEvaluate => /\ answers.pand_ab.kind = "ok"
                    /\ answers.pand_ab = answers.pand_ba
                    /\ answers.por_ab.kind = "ok"
                    /\ answers.por_ab = answers.por_ba

\* A holds an OR outside parentheses, the bare conjunctions disagree, and the
\* parenthesised ones agree on a non-empty set
C10_Witness ==
    /\ BothEvaluate
    /\ "OR" \in Range(operands[1])
    /\ answers.and_ab # answers.and_ba
    /\ answers.pand_ab = answers.pand_ba
    /\ answers.pand_ab.ids # {}
    /\ answers.por_ab.ids # answers.pand_ab.ids
    /\ "None" \notin Range(answers.por_ab.list)

\* C13: monotonicity: for any two queries A and B that each evaluate to a
\* set, the result set of A AND B is a subset of the result set of A OR B,
\* for every loaded index and document table.
C13_AndWithinOr ==
    BothEvaluate => /\ answers.and_ab.kind = "ok"
                    /\ answers.or_ab.kind = "ok"
                    /\ answers.and_ab.ids \subseteq answers.or_ab.ids

---------------------------------------------------------------------------
(* Claims about the index builder *)

Built == result.error = "None" /\ result.file_path # "None"

WrittenIndex == files[result.file_path]

\* document d's lemma file has a line whose first column is L
FileHasLemma(file, L) ==
    \E i \in DOMAIN file.lines : file.lines[i] # <<>> /\ file.lines[i][1] = L

InputFiles == {lemma_dir[i] : i \in {j \in DOMAIN lemma_dir : MatchesPattern(lemma_dir[j])}}

\* C6: soundness and completeness of the built index: the line written for a
\* lemma L holds document id d exactly when d's lemma file has a line whose
\* first column is L.
C6_IndexSoundAndComplete ==
    Built =>
        /\ \A i \in DOMAIN WrittenIndex :
             \A k \in 2..Len(WrittenIndex[i]) :
               \E f \in InputFiles :
                 /\ ToString(f.number) = WrittenIndex[i][k]
                 /\ FileHasLemma(f, WrittenIndex[i][1])
        /\ \A f \in InputFiles :
             \A j \in DOMAIN f.lines :
               \E i \in DOMAIN WrittenIndex :
                 /\ WrittenIndex[i][1] = f.lines[j][1]
                 /\ ToString(f.number) \in Range(Tail(WrittenIndex[i]))

\* two documents share a lemma, another lemma is in one of them only, and a
\* file of another name lies in the directory
C6_Witness ==
    /\ Built
    /\ \E i \in DOMAIN lemma_dir : ~MatchesPattern(lemma_dir[i])
    /\ \E i, j \in DOMAIN WrittenIndex :
         /\ Cardinality(Range(Tail(WrittenIndex[i]))) = 2
         /\ Cardinality(Range(Tail(WrittenIndex[j]))) = 1

\* int(column) of a written id
ParseInt(str) == CHOOSE n \in 0..(MaxFileNo + 1) : ToString(n) = str

\* C7: on every line the builder writes, the document ids are strictly
\* ascending in numeric order, whatever the order the files were listed in
\* and however often a lemma occurs in one file.
C7_PostingsStrictlyAscending ==
    Built =>
        \A i \in DOMAIN WrittenIndex :
          \A k \in 3..Len(WrittenIndex[i]) :
            ParseInt(WrittenIndex[i][k - 1]) < ParseInt(WrittenIndex[i][k])

---------------------------------------------------------------------------
(* Claims about the builder's output path and its error results *)

\* the path the output safety rule names: the requested path when it is
\* free, else <stem>_k<ext> for the smallest k >= 1 whose path is free
SafePath(existing) ==
    IF OutputPath(0) \notin existing THEN OutputPath(0)
    ELSE OutputPath(CHOOSE k \in 1..(MaxOutputs + 1) :
                       /\ OutputPath(k) \notin existing
                       /\ \A j \in 1..(k - 1) : OutputPath(j) \in existing)

\* C11: collision-safe output: a build never writes to a path that existed
\* when it started; it writes to the requested path when that is free, else
\* to <stem>_k<ext> for the smallest free k >= 1, reports that path, and
\* leaves the contents of every earlier file unchanged, over any sequence of
\* builds to the same requested path.
C11_CollisionSafeOutput ==
    [][ /\ \A p \in DOMAIN files : p \in DOMAIN files' /\ files'[p] = files[p]
        /\ (result'.error = "None") =>
              /\ result'.file_path = SafePath(DOMAIN files)
              /\ result'.file_path \notin DOMAIN files
              /\ DOMAIN files' = DOMAIN files \cup {result'.file_path}
      ]_vars

\* two builds went around two older files: the second landed on the suffix
\* after the gap, and the older files and the first output are as they were
C11_Witness ==
    /\ DOMAIN files = {OutputPath(k) : k \in 0..3}
    /\ result.file_path = OutputPath(3)
    /\ files[OutputPath(0)] = << <<"old">> >>
    /\ files[OutputPath(2)] = << <<"old">> >>
    /\ files[OutputPath(1)] \notin {files[OutputPath(3)], << <<"old">> >>}

\* C12: a build that returns an error result (no file of the directory
\* matches the naming pattern, or a lemma file cannot be parsed) has written
\* nothing: no file and no directory is created or changed, and the result
\* holds an error and no file path.
C12_ErrorWritesNothing ==
    [][ (result'.error # "None") =>
            /\ files' = files
            /\ dirs' = dirs
            /\ result'.file_path = "None"
      ]_vars

\* the build failed on a blank line of the second lemma file, after the first
\* was read, and the output side is still empty
C12_Witness ==
    /\ result.error = "list index out of range"
    /\ result.file_path = "None"
    /\ Len(lemma_dir) = 2
    /\ MatchesPattern(lemma_dir[1]) /\ lemma_dir[1].lines # <<>>
    /\ <<>> \notin Range(lemma_dir[1].lines)
    /\ <<>> \in Range(lemma_dir[2].lines)
    /\ files = <<>>
    /\ dirs = {}

---------------------------------------------------------------------------
(* Claims about the crawler *)

\* C16: per-host throttling holds under every interleaving of the pool's
\* threads: of any two requests to the same host, the later one is started
\* no earlier than Delay after the earlier one was started.
C16_PerHostThrottling ==
    \A i, j \in DOMAIN requests :
        (i < j /\ requests[i].host = requests[j].host)
            => requests[j].at - requests[i].at >= Delay

===========================================================================
